---------------------------- MODULE Spec2Model ----------------------------
(***************************************************************************)
(* Model of the semantic-search worker's access gate (auth, requireWriter, *)
(* key parsing), its embedding adapter (generateEmbedding) and the batch   *)
(* reindex client (scripts/reindex.ts).                                    *)
(*                                                                         *)
(* Strings are sequences of one-character strings.  In an Authorization    *)
(* header the scheme words "Bearer" and "Basic" are single elements:       *)
(* they contain neither a space nor a key character, so the                 *)
(* encoding is one-to-one and splitting on " " treats them as the code     *)
(* does.  An optional value (string | undefined) is a sequence of length   *)
(* zero (undefined) or one (the value).                                    *)
(***************************************************************************)
EXTENDS Integers, Sequences, FiniteSets, TLC

VARIABLES
    env,          \* the Env bindings API_KEY, API_KEY_WRITER, API_KEY_READER
    keySets,      \* result of the last buildKeySets call, if any
    authHeader,   \* c.req.header('Authorization')
    reqMethod,    \* c.req.method
    optMethods,   \* options?.methods given to requireWriter
    authRole,     \* context variable 'authRole'
    response,     \* what c.json(...) sent, status 0 when nothing was sent
    nextCalls,    \* the middlewares that called next(), in order
    ran,          \* the middlewares that have run, in order
    aiBinding,    \* behaviour of env.AI for the next run() call
    embedResult,  \* outcome of generateEmbedding
    upsertCalls,  \* vectors handed to VECTORIZE.upsert
    documents,    \* seed documents of the reindex script
    shouldClean,  \* --clean
    pc,           \* position of the reindex script's main()
    cursor,       \* index of the document the current loop is at
    inFlight,     \* HTTP requests sent and not yet answered
    requests,     \* every HTTP request issued, in order
    outcomes,     \* the answer each request got, in order
    success,      \* main's success counter
    failed,       \* main's failed counter
    exitCode      \* process exit code, -1 while running

authVars    == <<env, keySets, authHeader, reqMethod, optMethods, authRole,
                 response, nextCalls, ran>>
embedVars   == <<aiBinding, embedResult, upsertCalls>>
reindexVars == <<documents, shouldClean, pc, cursor, inFlight, requests,
                 outcomes, success, failed, exitCode>>
vars        == <<authVars, embedVars, reindexVars>>

-----------------------------------------------------------------------------
(* Bounds *)

MaxEnvLen     == 4   \* total characters over the three bindings (key parsing)
MaxAuthEnvLen == 2   \* total characters over the three bindings (auth)
MaxHeaderLen  == 4   \* elements of an Authorization header
MaxMethodLen  == 1   \* characters of an HTTP method name
MaxMethods    == 2   \* entries of options.methods
MaxExtra      == 2   \* raw embeddings run to dimension + MaxExtra elements
MaxSeed       == 1   \* distinct contents per raw embedding length
MaxDocs       == 2   \* documents in seed-data.json
MaxChainEnvLen    == 2   \* total characters over the three bindings (chain)
MaxChainHeaderLen == 3   \* elements of an Authorization header (chain)
MaxChainMethods   == 1   \* entries of options.methods (chain)

-----------------------------------------------------------------------------
(* Strings and optional values *)

NoValue == <<>>
Some(v) == <<v>>
IsSome(o) == Len(o) = 1
Get(o) == o[1]

\* Alphabets: key material of the key-parsing specification, key material of
\* the auth specification, and the elements of an Authorization header.
KeyChars     == {"k", "x", ",", "\n", " "}
AuthKeyChars == {"k", ",", " "}
HeaderChars  == {"Bearer", "k", " "}

\* JavaScript's white space as far as String.prototype.trim sees the alphabet
WhiteSpace == {" ", "\n", "\t"}

StringsOfLen(chars, n) == [1..n -> chars]
Strings(chars, n) == UNION {StringsOfLen(chars, k) : k \in 0..n}

Range(s) == {s[i] : i \in DOMAIN s}

\* String.prototype.split(separator) for a one-character separator class
RECURSIVE Split(_, _)
Split(s, seps) ==
    IF s = <<>> THEN << <<>> >>
    ELSE IF Head(s) \in seps
         THEN << <<>> >> \o Split(Tail(s), seps)
         ELSE LET rest == Split(Tail(s), seps)
              IN  << <<Head(s)>> \o Head(rest) >> \o Tail(rest)

RECURSIVE TrimStart(_)
TrimStart(s) ==
    IF s # <<>> /\ Head(s) \in WhiteSpace THEN TrimStart(Tail(s)) ELSE s

RECURSIVE TrimEnd(_)
TrimEnd(s) ==
    IF s # <<>> /\ s[Len(s)] \in WhiteSpace
    THEN TrimEnd(SubSeq(s, 1, Len(s) - 1))
    ELSE s

\* String.prototype.trim
Trim(s) == TrimEnd(TrimStart(s))

\* Array.prototype.map((value) => value.trim())
TrimAll(pieces) == [i \in 1..Len(pieces) |-> Trim(pieces[i])]

\* Array.prototype.filter(Boolean) on an array of strings
FilterNonEmpty(s) == SelectSeq(s, LAMBDA v : v # <<>>)

-----------------------------------------------------------------------------
(* Key registry: parseKeyList, buildKeySets *)

parseKeyListNoTrim(raw) ==
    IF ~IsSome(raw) \/ Get(raw) = <<>>
    THEN <<>>
    ELSE FilterNonEmpty(Split(Get(raw), {"\n", ","}))

parseKeyList(raw) ==
    IF ~IsSome(raw) \/ Get(raw) = <<>>
    THEN <<>>
    ELSE FilterNonEmpty(TrimAll(Split(Get(raw), {"\n", ","})))

buildKeySets(e) ==
    [writerKeys |-> Range(parseKeyList(e.API_KEY_WRITER) \o parseKeyList(e.API_KEY)),
     readerKeys |-> Range(parseKeyList(e.API_KEY_READER))]

-----------------------------------------------------------------------------
(* Access gate: auth *)

NoResponse   == [status |-> 0, error |-> ""]
Unauthorized == [status |-> 401, error |-> "Unauthorized"]
Forbidden    == [status |-> 403, error |-> "Writer key required for this endpoint"]

\* const [scheme, token] = authHeader.split(' ')
SchemeOf(header) == Split(header, {" "})[1]
TokenOf(header) ==
    LET parts == Split(header, {" "})
    IN  IF Len(parts) >= 2 THEN Some(parts[2]) ELSE NoValue

\* What one run of the auth middleware does: the key sets it built (if it
\* got that far), the role it recorded, the response it sent and whether it
\* called next.
Reject(keys) ==
    [keySets |-> keys, role |-> "unset", response |-> Unauthorized, next |-> FALSE]
Accept(keys, role) ==
    [keySets |-> keys, role |-> role, response |-> NoResponse, next |-> TRUE]

authReaderFirst(e, header) ==
    IF ~IsSome(header) \/ Get(header) = <<>>
    THEN Reject(NoValue)
    ELSE LET scheme == SchemeOf(Get(header))
             token  == TokenOf(Get(header))
         IN  IF scheme # <<"Bearer">> \/ ~IsSome(token) \/ Get(token) = <<>>
             THEN Reject(NoValue)
             ELSE LET keys == buildKeySets(e)
                  IN  IF keys.writerKeys = {} /\ keys.readerKeys = {}
                      THEN Reject(Some(keys))
                      ELSE IF Get(token) \in keys.readerKeys
                      THEN Accept(Some(keys), "reader")
                      ELSE IF Get(token) \in keys.writerKeys
                      THEN Accept(Some(keys), "writer")
                      ELSE Reject(Some(keys))

authNoSchemeCheck(e, header) ==
    IF ~IsSome(header) \/ Get(header) = <<>>
    THEN Reject(NoValue)
    ELSE LET token == TokenOf(Get(header))
         IN  IF ~IsSome(token) \/ Get(token) = <<>>
             THEN Reject(NoValue)
             ELSE LET keys == buildKeySets(e)
                  IN  IF keys.writerKeys = {} /\ keys.readerKeys = {}
                      THEN Reject(Some(keys))
                      ELSE IF Get(token) \in keys.writerKeys
                      THEN Accept(Some(keys), "writer")
                      ELSE IF Get(token) \in keys.readerKeys
                      THEN Accept(Some(keys), "reader")
                      ELSE Reject(Some(keys))

authOpenWhenUnconfigured(e, header) ==
    IF ~IsSome(header) \/ Get(header) = <<>>
    THEN Reject(NoValue)
    ELSE LET scheme == SchemeOf(Get(header))
             token  == TokenOf(Get(header))
         IN  IF scheme # <<"Bearer">> \/ ~IsSome(token) \/ Get(token) = <<>>
             THEN Reject(NoValue)
             ELSE LET keys == buildKeySets(e)
                  IN  IF keys.writerKeys = {} /\ keys.readerKeys = {}
                      THEN Accept(Some(keys), "writer")
                      ELSE IF Get(token) \in keys.writerKeys
                      THEN Accept(Some(keys), "writer")
                      ELSE IF Get(token) \in keys.readerKeys
                      THEN Accept(Some(keys), "reader")
                      ELSE Reject(Some(keys))

auth(e, header) ==
    IF ~IsSome(header) \/ Get(header) = <<>>
    THEN Reject(NoValue)
    ELSE LET scheme == SchemeOf(Get(header))
             token  == TokenOf(Get(header))
         IN  IF scheme # <<"Bearer">> \/ ~IsSome(token) \/ Get(token) = <<>>
             THEN Reject(NoValue)
             ELSE LET keys == buildKeySets(e)
                  IN  IF keys.writerKeys = {} /\ keys.readerKeys = {}
                      THEN Reject(Some(keys))
                      ELSE IF Get(token) \in keys.writerKeys
                      THEN Accept(Some(keys), "writer")
                      ELSE IF Get(token) \in keys.readerKeys
                      THEN Accept(Some(keys), "reader")
                      ELSE Reject(Some(keys))

-----------------------------------------------------------------------------
(* Access gate: requireWriter *)

MethodChars == {"p", "P", "g"}

\* String.prototype.toUpperCase on the method alphabet
UpperChar(ch) == IF ch = "p" THEN "P" ELSE IF ch = "g" THEN "G" ELSE ch
toUpperCase(s) == [i \in 1..Len(s) |-> UpperChar(s[i])]

\* options?.methods?.map((method) => method.toUpperCase())
UpperMethods(opt) ==
    IF IsSome(opt)
    THEN Some([i \in 1..Len(Get(opt)) |-> toUpperCase(Get(opt)[i])])
    ELSE NoValue

\* Array.prototype.includes
Includes(arr, v) == \E i \in 1..Len(arr) : arr[i] = v

Pass     == [response |-> NoResponse, next |-> TRUE]
Refuse   == [response |-> Forbidden, next |-> FALSE]

requireWriterCaseSensitive(opt, method, role) ==
    IF IsSome(opt) /\ ~Includes(Get(opt), method)
    THEN Pass
    ELSE IF role # "writer" THEN Refuse ELSE Pass

requireWriterEveryMethod(opt, method, role) ==
    IF role # "writer" THEN Refuse ELSE Pass

requireWriter(opt, method, role) ==
    LET methods       == UpperMethods(opt)
        currentMethod == toUpperCase(method)
    IN  IF IsSome(methods) /\ ~Includes(Get(methods), currentMethod)
        THEN Pass
        ELSE IF role # "writer" THEN Refuse ELSE Pass

-----------------------------------------------------------------------------
(* Input domains *)

\* A binding of total length 0 is undefined or the empty string.
BindingsOfLen(chars, n) ==
    IF n = 0 THEN {NoValue, Some(<<>>)}
    ELSE {Some(str) : str \in StringsOfLen(chars, n)}

\* Every Env whose three bindings hold at most n characters together
Envs(chars, n) ==
    UNION {[API_KEY : BindingsOfLen(chars, l[1]),
            API_KEY_WRITER : BindingsOfLen(chars, l[2]),
            API_KEY_READER : BindingsOfLen(chars, l[3])] :
           l \in {t \in (0..n) \X (0..n) \X (0..n) : t[1] + t[2] + t[3] <= n}}

NoEnv == [API_KEY |-> NoValue, API_KEY_WRITER |-> NoValue, API_KEY_READER |-> NoValue]

\* No header, any text over HeaderChars, or such a text led by "Basic"
Headers ==
    {NoValue}
    \cup {Some(h) : h \in Strings(HeaderChars, MaxHeaderLen)}
    \cup {Some(<<"Basic">> \o h) : h \in Strings(HeaderChars, MaxHeaderLen - 1)}

Methods == UNION {StringsOfLen(MethodChars, k) : k \in 1..MaxMethodLen}

MethodLists == UNION {[1..k -> Methods] : k \in 0..MaxMethods}

MethodOptions == {NoValue} \cup {Some(l) : l \in MethodLists}

-----------------------------------------------------------------------------
(* Idle values of the parts a specification does not exercise *)

AuthIdle ==
    /\ env = NoEnv
    /\ keySets = NoValue
    /\ authHeader = NoValue
    /\ reqMethod = <<>>
    /\ optMethods = NoValue
    /\ authRole = "unset"
    /\ response = NoResponse
    /\ nextCalls = <<>>
    /\ ran = <<>>

EmbedIdle ==
    /\ aiBinding = [kind |-> "none", embedding |-> <<>>]
    /\ embedResult = [kind |-> "pending", vector |-> <<>>,
                      message |-> [wrapper |-> "", cause |-> ""]]
    /\ upsertCalls = <<>>

ReindexIdle ==
    /\ documents = <<>>
    /\ shouldClean = FALSE
    /\ pc = "idle"
    /\ cursor = 0
    /\ inFlight = 0
    /\ requests = <<>>
    /\ outcomes = <<>>
    /\ success = 0
    /\ failed = 0
    /\ exitCode = -1

-----------------------------------------------------------------------------
(* Key registry specification: buildKeySets applied to every Env *)

InitKeys ==
    /\ AuthIdle!2 /\ AuthIdle!3 /\ AuthIdle!4 /\ AuthIdle!5 /\ AuthIdle!6
    /\ AuthIdle!7 /\ AuthIdle!8 /\ AuthIdle!9
    /\ env \in Envs(KeyChars, MaxEnvLen)
    /\ EmbedIdle
    /\ ReindexIdle

CallBuildKeySets ==
    /\ ran = <<>>
    /\ keySets' = Some(buildKeySets(env))
    /\ ran' = <<"buildKeySets">>
    /\ UNCHANGED <<env, authHeader, reqMethod, optMethods, authRole, response,
                   nextCalls, embedVars, reindexVars>>

NextKeys == CallBuildKeySets

SpecKeys == InitKeys /\ [][NextKeys]_vars

-----------------------------------------------------------------------------
(* Auth specification: one request through the auth middleware *)

InitAuth ==
    /\ AuthIdle!2 /\ AuthIdle!3 /\ AuthIdle!4 /\ AuthIdle!5 /\ AuthIdle!6
    /\ AuthIdle!7 /\ AuthIdle!8 /\ AuthIdle!9
    /\ env \in Envs(AuthKeyChars, MaxAuthEnvLen)
    /\ EmbedIdle
    /\ ReindexIdle

\* A request with Authorization header h and method m reaches auth().
Auth(h, m) ==
    /\ ran = <<>>
    /\ LET r == auth(env, h)
       IN  /\ keySets' = r.keySets
           /\ authRole' = r.role
           /\ response' = r.response
           /\ nextCalls' = IF r.next THEN <<"auth">> ELSE <<>>
    /\ authHeader' = h
    /\ reqMethod' = m
    /\ ran' = <<"auth">>
    /\ UNCHANGED <<env, optMethods, embedVars, reindexVars>>

NextAuth == ran = <<>> /\ \E h \in Headers, m \in {<<"g">>, <<"p">>} : Auth(h, m)

SpecAuth == InitAuth /\ [][NextAuth]_vars

-----------------------------------------------------------------------------
(* requireWriter specification: one request through requireWriter(options) *)
(* with whatever role the context holds                                    *)

InitWriter ==
    /\ env = NoEnv
    /\ keySets = NoValue
    /\ authHeader = NoValue
    /\ reqMethod = <<>>
    /\ optMethods \in MethodOptions
    /\ authRole \in {"unset", "reader", "writer"}
    /\ response = NoResponse
    /\ nextCalls = <<>>
    /\ ran = <<>>
    /\ EmbedIdle
    /\ ReindexIdle

RequireWriter(m) ==
    /\ ran = <<>>
    /\ LET r == requireWriter(optMethods, m, authRole)
       IN  /\ response' = r.response
           /\ nextCalls' = IF r.next THEN <<"requireWriter">> ELSE <<>>
    /\ reqMethod' = m
    /\ ran' = <<"requireWriter">>
    /\ UNCHANGED <<env, keySets, authHeader, optMethods, authRole, embedVars,
                   reindexVars>>

NextWriter == ran = <<>> /\ \E m \in Methods : RequireWriter(m)

SpecWriter == InitWriter /\ [][NextWriter]_vars

-----------------------------------------------------------------------------
(* Vocabulary of the claims, stated without the code's split/trim/filter   *)

Min(S) == CHOOSE x \in S : \A y \in S : x <= y
Max(S) == CHOOSE x \in S : \A y \in S : x >= y

\* The maximal runs of s that contain no separator
Pieces(s, seps) ==
    {SubSeq(s, i, j) : <<i, j>> \in
        {b \in (1..Len(s) + 1) \X (0..Len(s)) :
            /\ b[1] <= b[2] + 1
            /\ \A n \in b[1]..b[2] : s[n] \notin seps
            /\ (b[1] = 1 \/ s[b[1] - 1] \in seps)
            /\ (b[2] = Len(s) \/ s[b[2] + 1] \in seps)}}

\* p without its leading and trailing white space
Stripped(p) ==
    LET solid == {i \in 1..Len(p) : p[i] \notin WhiteSpace}
    IN  IF solid = {} THEN <<>> ELSE SubSeq(p, Min(solid), Max(solid))

\* The tokens a raw binding configures
TokensIn(raw) ==
    IF IsSome(raw)
    THEN {Stripped(p) : p \in Pieces(Get(raw), {",", "\n"})} \ {<<>>}
    ELSE {}

WriterSet(e) == TokensIn(e.API_KEY_WRITER) \cup TokensIn(e.API_KEY)
ReaderSet(e) == TokensIn(e.API_KEY_READER)

Spaces(s) == {i \in 1..Len(s) : s[i] = " "}
FirstSpace(s) == IF Spaces(s) = {} THEN Len(s) + 1 ELSE Min(Spaces(s))
SecondSpace(s) ==
    LET later == {i \in Spaces(s) : i > FirstSpace(s)}
    IN  IF later = {} THEN Len(s) + 1 ELSE Min(later)

\* The header's scheme word and the credential word that follows it
HeaderScheme(s) == SubSeq(s, 1, FirstSpace(s) - 1)
HeaderCredential(s) == SubSeq(s, FirstSpace(s) + 1, SecondSpace(s) - 1)

\* "Bearer", one space, a non-empty token without spaces, nothing else
ExactBearer(h) ==
    /\ IsSome(h)
    /\ Len(Get(h)) >= 3
    /\ Get(h)[1] = "Bearer"
    /\ Get(h)[2] = " "
    /\ \A i \in 3..Len(Get(h)) : Get(h)[i] # " "
BearerToken(h) == SubSeq(Get(h), 3, Len(Get(h)))

AuthRan == ran = <<"auth">>
Passed(mw) == nextCalls = <<mw>> /\ response = NoResponse
Rejected401 == response = Unauthorized /\ nextCalls = <<>> /\ authRole = "unset"

-----------------------------------------------------------------------------
(* Claims about auth *)

\* C1: for every key configuration and every well-formed "Bearer <token>"
\* request, auth records 'writer' and calls next when the token is in the
\* writer set, records 'reader' and calls next when it is in the reader set
\* only, and otherwise answers 401 without calling next; a token in both sets
\* is classified writer.
C1_Classification ==
    (AuthRan /\ ExactBearer(authHeader)) =>
        IF BearerToken(authHeader) \in WriterSet(env)
        THEN authRole = "writer" /\ Passed("auth")
        ELSE IF BearerToken(authHeader) \in ReaderSet(env)
        THEN authRole = "reader" /\ Passed("auth")
        ELSE Rejected401

C1_Witness ==
    /\ AuthRan
    /\ ExactBearer(authHeader)
    /\ BearerToken(authHeader) \in WriterSet(env) \cap ReaderSet(env)
    /\ authRole = "writer"
    /\ Passed("auth")

\* C2: a request whose Authorization header is absent, uses a scheme other
\* than Bearer, or carries an empty token is answered 401, next is not called
\* and no role is set, whatever the method and the configured keys.
C2_MalformedHeader ==
    (/\ AuthRan
     /\ \/ ~IsSome(authHeader)
        \/ HeaderScheme(Get(authHeader)) # <<"Bearer">>
        \/ HeaderCredential(Get(authHeader)) = <<>>)
    => Rejected401

C2_Witness ==
    /\ AuthRan
    /\ IsSome(authHeader)
    /\ HeaderScheme(Get(authHeader)) = <<"Basic">>
    /\ HeaderCredential(Get(authHeader)) \in WriterSet(env)
    /\ reqMethod = <<"g">>
    /\ Rejected401

\* C4: when no key is configured (every binding missing, empty or holding
\* only separators and white space) auth answers 401 to every request, never
\* calls next and never sets a role.
C4_NoOpenAccess ==
    (AuthRan /\ WriterSet(env) = {} /\ ReaderSet(env) = {}) => Rejected401

C4_Witness ==
    /\ AuthRan
    /\ WriterSet(env) = {} /\ ReaderSet(env) = {}
    /\ env.API_KEY_WRITER = Some(<<",", " ">>)
    /\ env.API_KEY = Some(<<>>)
    /\ ExactBearer(authHeader)
    /\ Rejected401

\* C5: auth accepts a request only when its header is exactly
\* "Bearer <token>"; a header of any other form, such as one with further
\* text after the token, is answered 401.
C5_ExactFormOnly ==
    (AuthRan /\ ~ExactBearer(authHeader)) =>
        (response = Unauthorized /\ nextCalls = <<>>)

-----------------------------------------------------------------------------
(* Claims about requireWriter *)

SameLetter(a, b) == a = b \/ {a, b} = {"p", "P"} \/ {a, b} = {"g", "G"}
SameIgnoringCase(a, b) ==
    Len(a) = Len(b) /\ \A i \in 1..Len(a) : SameLetter(a[i], b[i])

\* The method is listed in options.methods, or no list was given
Protected(opt, m) ==
    ~IsSome(opt) \/ \E i \in 1..Len(Get(opt)) : SameIgnoringCase(Get(opt)[i], m)

WriterRan == ran = <<"requireWriter">>

\* C3: on a method requireWriter protects, a role other than 'writer' gets
\* 403 {error: 'Writer key required for this endpoint'} and next is not
\* called; the role 'writer' gets next and no response.
C3_WriterRequired ==
    (WriterRan /\ Protected(optMethods, reqMethod)) =>
        IF authRole = "writer"
        THEN Passed("requireWriter")
        ELSE response = Forbidden /\ nextCalls = <<>>

C3_Witness ==
    /\ WriterRan
    /\ IsSome(optMethods)
    /\ reqMethod = <<"p">>
    /\ Get(optMethods) = << <<"g">>, <<"P">> >>
    /\ authRole = "reader"
    /\ response = Forbidden
    /\ nextCalls = <<>>

-----------------------------------------------------------------------------
(* Claims about the key registry *)

KeysBuilt == ran = <<"buildKeySets">>

CleanToken(t) ==
    /\ t # <<>>
    /\ t[1] \notin WhiteSpace
    /\ t[Len(t)] \notin WhiteSpace
    /\ \A i \in 1..Len(t) : t[i] \notin {",", "\n"}

\* C8: writerKeys is the set of trimmed, non-empty comma/newline pieces of
\* API_KEY_WRITER and the legacy API_KEY, readerKeys the same for
\* API_KEY_READER; no empty or padded token is a member, and the legacy key
\* contributes to writerKeys only.
C8_KeySets ==
    KeysBuilt =>
        /\ Get(keySets).writerKeys = WriterSet(env)
        /\ Get(keySets).readerKeys = ReaderSet(env)
        /\ \A t \in Get(keySets).writerKeys \cup Get(keySets).readerKeys :
              CleanToken(t)

C8_Witness ==
    /\ KeysBuilt
    /\ env.API_KEY_WRITER = Some(<<" ", "k", ",">>)
    /\ env.API_KEY = Some(<<"x">>)
    /\ env.API_KEY_READER = NoValue
    /\ Get(keySets).writerKeys = {<<"k">>, <<"x">>}
    /\ Get(keySets).readerKeys = {}

-----------------------------------------------------------------------------
(* Embedding adapter: CloudflareSemanticSearchAdapter.generateEmbedding *)

dimension == 256

\* Native output length of the embedding model
NativeDim == 768

Number(v) == [type |-> "number", val |-> v]
Text(v)   == [type |-> "string", val |-> v]

\* A raw embedding of n elements; element bad, if any, is not a number.
RawEmbedding(n, seed, bad) ==
    [i \in 1..n |-> IF i = bad THEN Text(i) ELSE Number((i * (seed + 1)) % 5)]

RawLengths == (0..(dimension + MaxExtra)) \cup {NativeDim}

\* What env.AI does when asked: the binding has no run(), run() throws, or
\* run() resolves to a payload of one of these shapes.
AiBindings ==
    {[kind |-> k, embedding |-> <<>>] :
        k \in {"notFunction", "throws", "nullResponse", "noData",
               "dataNotArray", "emptyData", "embeddingNotArray"}}
    \cup
    {[kind |-> "embedding", embedding |-> RawEmbedding(n, seed, bad)] :
        n \in RawLengths, seed \in 0..MaxSeed,
        bad \in {0, 1, dimension, dimension + 1}}

Failure(cause) ==
    [kind |-> "error", vector |-> <<>>,
     message |-> [wrapper |-> "Failed to generate embedding", cause |-> cause]]
Vector(v) ==
    [kind |-> "vector", vector |-> v, message |-> [wrapper |-> "", cause |-> ""]]
Pending ==
    [kind |-> "pending", vector |-> <<>>, message |-> [wrapper |-> "", cause |-> ""]]

\* Array.prototype.slice(0, n)
Slice0(arr, n) == SubSeq(arr, 1, IF Len(arr) < n THEN Len(arr) ELSE n)

generateEmbeddingNoTruncate(ai) ==
    IF ai.kind = "notFunction" THEN Failure("AI.run is not a function")
    ELSE IF ai.kind = "throws" THEN Failure("AI.run threw")
    ELSE IF ai.kind \in {"nullResponse", "noData", "dataNotArray"}
    THEN Failure("Invalid response from AI.run")
    ELSE IF ai.kind \in {"emptyData", "embeddingNotArray"}
    THEN Failure("Embedding payload is not an array")
    ELSE IF Len(ai.embedding) < dimension
    THEN Failure("Embedding length is smaller than required dimension")
    ELSE Vector(ai.embedding)

generateEmbedding(ai) ==
    IF ai.kind = "notFunction" THEN Failure("AI.run is not a function")
    ELSE IF ai.kind = "throws" THEN Failure("AI.run threw")
    ELSE IF ai.kind \in {"nullResponse", "noData", "dataNotArray"}
    THEN Failure("Invalid response from AI.run")
    ELSE IF ai.kind \in {"emptyData", "embeddingNotArray"}
    THEN Failure("Embedding payload is not an array")
    ELSE IF Len(ai.embedding) < dimension
    THEN Failure("Embedding length is smaller than required dimension")
    ELSE Vector(Slice0(ai.embedding, dimension))

InitEmbed ==
    /\ AuthIdle
    /\ aiBinding \in AiBindings
    /\ embedResult = Pending
    /\ upsertCalls = <<>>
    /\ ReindexIdle

\* The caller awaits generateEmbedding(text).
GenerateEmbedding ==
    /\ embedResult.kind = "pending"
    /\ embedResult' = generateEmbedding(aiBinding)
    /\ UNCHANGED <<aiBinding, upsertCalls, authVars, reindexVars>>

\* The caller stores what it embedded: it gets here only with a vector,
\* an embedding error having aborted the operation.
UpsertVector ==
    /\ embedResult.kind = "vector"
    /\ upsertCalls = <<>>
    /\ upsertCalls' = <<embedResult.vector>>
    /\ UNCHANGED <<aiBinding, embedResult, authVars, reindexVars>>

NextEmbed == GenerateEmbedding \/ UpsertVector

SpecEmbed == InitEmbed /\ [][NextEmbed]_vars

\* C6: whenever generateEmbedding returns a vector it has exactly 256
\* elements and element i is element i of the model's raw output for every
\* i < 256; a raw output of length 256 is returned unchanged.
C6_PrefixTruncation ==
    embedResult.kind = "vector" =>
        /\ aiBinding.kind = "embedding"
        /\ Len(embedResult.vector) = 256
        /\ \A i \in 1..256 : embedResult.vector[i] = aiBinding.embedding[i]
        /\ Len(aiBinding.embedding) = 256 =>
              embedResult.vector = aiBinding.embedding

C6_Witness ==
    /\ embedResult.kind = "vector"
    /\ Len(aiBinding.embedding) = 768
    /\ Len(embedResult.vector) = 256
    /\ embedResult.vector[256] = aiBinding.embedding[256]
    /\ embedResult.vector[256] # aiBinding.embedding[257]

MalformedPayload(ai) ==
    \/ ai.kind \in {"nullResponse", "noData", "dataNotArray", "emptyData",
                    "embeddingNotArray"}
    \/ /\ ai.kind = "embedding"
       /\ \E i \in 1..Len(ai.embedding) : ai.embedding[i].type # "number"

\* C7: generateEmbedding fails with 'Failed to generate embedding: ...' and
\* returns no vector whenever the model call throws, the raw output has fewer
\* than 256 elements or the payload is malformed (missing data, non-array
\* data, non-array embedding, non-number elements), so that the caller never
\* reaches upsert.
C7_FailsOnBadPayload ==
    (/\ embedResult.kind # "pending"
     /\ \/ aiBinding.kind = "throws"
        \/ MalformedPayload(aiBinding)
        \/ aiBinding.kind = "embedding" /\ Len(aiBinding.embedding) < 256)
    => /\ embedResult.kind = "error"
       /\ embedResult.message.wrapper = "Failed to generate embedding"
       /\ upsertCalls = <<>>

-----------------------------------------------------------------------------
(* Batch reindex client: scripts/reindex.ts *)

\* A document id that is a lone surrogate: encodeURIComponent throws
\* URIError on it, on every other id it returns the encoded id.
LoneSurrogate == "\\uD800"
DocIds == {"doc-a", "doc-b", LoneSurrogate}
EncodeThrows(id) == id = LoneSurrogate

SeedLists == UNION {[1..n -> DocIds] : n \in 0..MaxDocs}

\* How a fetch() ends: a 2xx status, 404, another status, or a rejection
FetchOutcomes == {"ok", "notFound", "failStatus", "networkError"}

\* deleteDocument's return value for a request that was sent
deleteDocument(outcome) == outcome \in {"ok", "notFound"}

\* indexDocument's return value
indexDocument(outcome) == outcome = "ok"

Request(method, i) == [method |-> method, doc |-> i, id |-> documents[i]]

InitReindex ==
    /\ AuthIdle
    /\ EmbedIdle
    /\ documents = <<>>
    /\ shouldClean \in BOOLEAN
    /\ pc = "start"
    /\ cursor = 0
    /\ inFlight = 0
    /\ requests = <<>>
    /\ outcomes = <<>>
    /\ success = 0
    /\ failed = 0
    /\ exitCode = -1

\* process.exit(code)
Exit(code) == pc' = "exited" /\ exitCode' = code

\* End of main(): exit 1 when failed > 0, else the process ends normally.
EndOfMain(nFailed) == Exit(IF nFailed > 0 THEN 1 ELSE 0)

\* getApiUrl()/validateUrl() reject the URL, or no API key is set.
ConfigError ==
    /\ pc = "start"
    /\ Exit(1)
    /\ UNCHANGED <<documents, shouldClean, cursor, inFlight, requests,
                   outcomes, success, failed, authVars, embedVars>>

\* The module's top level completes and main() is called.
StartMain ==
    /\ pc = "start"
    /\ pc' = "load"
    /\ UNCHANGED <<documents, shouldClean, cursor, inFlight, requests,
                   outcomes, success, failed, exitCode, authVars, embedVars>>

\* loadSeedData() cannot read or parse the file, or it holds no array.
LoadSeedDataFails ==
    /\ pc = "load"
    /\ Exit(1)
    /\ UNCHANGED <<documents, shouldClean, cursor, inFlight, requests,
                   outcomes, success, failed, authVars, embedVars>>

\* loadSeedData() returns docs; main enters the first loop that has work.
LoadSeedData(docs) ==
    /\ pc = "load"
    /\ documents' = docs
    /\ IF docs = <<>>
       THEN EndOfMain(0) /\ cursor' = cursor
       ELSE /\ pc' = IF shouldClean THEN "delete" ELSE "index"
            /\ cursor' = 1
            /\ exitCode' = exitCode
    /\ UNCHANGED <<shouldClean, inFlight, requests, outcomes, success, failed,
                   authVars, embedVars>>

\* deleteDocument(doc.id) up to its fetch(): building the URL is outside the
\* try block, so a URIError rejects main() and main().catch exits with 1.
DeleteSend ==
    /\ pc = "delete"
    /\ inFlight = 0
    /\ IF EncodeThrows(documents[cursor])
       THEN Exit(1) /\ UNCHANGED <<requests, inFlight>>
       ELSE /\ requests' = Append(requests, Request("DELETE", cursor))
            /\ inFlight' = inFlight + 1
            /\ pc' = "deleteWait"
            /\ exitCode' = exitCode
    /\ UNCHANGED <<documents, shouldClean, cursor, outcomes, success, failed,
                   authVars, embedVars>>

\* The DELETE is answered; main discards deleteDocument's return value and
\* goes on to the next document, or to the index loop after the last one.
DeleteReceive(outcome) ==
    /\ pc = "deleteWait"
    /\ outcomes' = Append(outcomes, outcome)
    /\ inFlight' = inFlight - 1
    /\ IF cursor < Len(documents)
       THEN pc' = "delete" /\ cursor' = cursor + 1
       ELSE pc' = "index" /\ cursor' = 1
    /\ UNCHANGED <<documents, shouldClean, requests, success, failed, exitCode,
                   authVars, embedVars>>

\* indexDocument(doc) up to its fetch(); everything is inside the try block.
IndexSend ==
    /\ pc = "index"
    /\ inFlight = 0
    /\ requests' = Append(requests, Request("POST", cursor))
    /\ inFlight' = inFlight + 1
    /\ pc' = "indexWait"
    /\ UNCHANGED <<documents, shouldClean, cursor, outcomes, success, failed,
                   exitCode, authVars, embedVars>>

\* The POST is answered; main counts it and, after the last document,
\* reports and exits.
IndexReceive(outcome) ==
    /\ pc = "indexWait"
    /\ outcomes' = Append(outcomes, outcome)
    /\ inFlight' = inFlight - 1
    /\ LET ok == indexDocument(outcome)
           s  == IF ok THEN success + 1 ELSE success
           f  == IF ok THEN failed ELSE failed + 1
       IN  /\ success' = s
           /\ failed' = f
           /\ IF cursor < Len(documents)
              THEN pc' = "index" /\ cursor' = cursor + 1 /\ exitCode' = exitCode
              ELSE EndOfMain(f) /\ cursor' = cursor
    /\ UNCHANGED <<documents, shouldClean, requests, authVars, embedVars>>

NextReindex ==
    \/ ConfigError
    \/ StartMain
    \/ LoadSeedDataFails
    \/ \E docs \in SeedLists : LoadSeedData(docs)
    \/ DeleteSend
    \/ \E o \in FetchOutcomes : DeleteReceive(o)
    \/ IndexSend
    \/ \E o \in FetchOutcomes : IndexReceive(o)

SpecReindex == InitReindex /\ [][NextReindex]_vars

\* The requests of one method, in the order they were issued
RequestsOf(method) == SelectSeq(requests, LAMBDA r : r.method = method)

\* Request n failed: a failure status or a network error; a 404 answer to a
\* DELETE is an absent document, not a failure.
RequestFailed(n) ==
    IF requests[n].method = "DELETE"
    THEN outcomes[n] \in {"failStatus", "networkError"}
    ELSE outcomes[n] # "ok"

AnyDocumentFailed == \E n \in 1..Len(outcomes) : RequestFailed(n)

\* C9: the run ends with a non-zero exit whenever any document fails, that
\* is any index request, or any delete request in --clean mode, that returns
\* a failure status or a network error; it exits zero only when none failed.
C9_ExitOnAnyFailure ==
    (pc = "exited" /\ AnyDocumentFailed) => exitCode # 0

\* C10: the batch is never aborted and runs sequentially: at most one
\* request is in flight, and when the run has ended exactly one index request
\* was issued per seed document, in seed order, every delete request came
\* before the first index request, and success + failed = N.
C10_SequentialNoAbort ==
    /\ inFlight <= 1
    /\ \A m, n \in 1..Len(requests) :
          (requests[m].method = "DELETE" /\ requests[n].method = "POST") => m < n
    /\ pc = "exited" =>
          /\ RequestsOf("POST") =
                [i \in 1..Len(documents) |->
                    [method |-> "POST", doc |-> i, id |-> documents[i]]]
          /\ success + failed = Len(documents)

-----------------------------------------------------------------------------
(* Chain specification: one request through auth, then requireWriter(M),  *)
(* then the route handler; requireWriter is also run on its own, on a     *)
(* context that already holds a role.                                     *)

ChainKeyChars == {"k"}
ChainMethods == {<<"g">>, <<"p">>, <<"P">>}

ChainHeaders ==
    {NoValue}
    \cup {Some(h) : h \in Strings(HeaderChars, MaxChainHeaderLen)}
    \cup {Some(<<"Basic">> \o h) : h \in Strings(HeaderChars, MaxChainHeaderLen - 1)}

ChainMethodOptions ==
    {NoValue}
    \cup {Some(l) : l \in UNION {[1..n -> ChainMethods] : n \in 0..MaxChainMethods}}

InitChain ==
    /\ env \in Envs(ChainKeyChars, MaxChainEnvLen)
    /\ keySets = NoValue
    /\ authHeader = NoValue
    /\ reqMethod = <<>>
    /\ optMethods \in ChainMethodOptions
    /\ authRole \in {"unset", "reader", "writer"}
    /\ response = NoResponse
    /\ nextCalls = <<>>
    /\ ran = <<>>
    /\ EmbedIdle
    /\ ReindexIdle

\* auth awaited next(): the next middleware of the chain, requireWriter, runs
\* on the same context.
ChainRequireWriter ==
    /\ ran = <<"auth">>
    /\ nextCalls = <<"auth">>
    /\ LET r == requireWriter(optMethods, reqMethod, authRole)
       IN  /\ response' = r.response
           /\ nextCalls' = IF r.next THEN Append(nextCalls, "requireWriter")
                           ELSE nextCalls
    /\ ran' = Append(ran, "requireWriter")
    /\ UNCHANGED <<env, keySets, authHeader, reqMethod, optMethods, authRole,
                   embedVars, reindexVars>>

\* requireWriter awaited next(): the route handler is reached.
Handler ==
    /\ ran = <<"auth", "requireWriter">>
    /\ nextCalls = <<"auth", "requireWriter">>
    /\ ran' = Append(ran, "handler")
    /\ UNCHANGED <<env, keySets, authHeader, reqMethod, optMethods, authRole,
                   response, nextCalls, embedVars, reindexVars>>

\* A request enters the chain on a fresh context (no role recorded), or
\* requireWriter is called on its own.
NextChain ==
    \/ /\ ran = <<>>
       /\ authRole = "unset"
       /\ \E h \in ChainHeaders, m \in ChainMethods : Auth(h, m)
    \/ ChainRequireWriter
    \/ Handler
    \/ ran = <<>> /\ \E m \in ChainMethods : RequireWriter(m)

SpecChain == InitChain /\ [][NextChain]_vars

\* The token of a request, if its header carries one after "Bearer"
HasToken(h) ==
    /\ IsSome(h)
    /\ HeaderScheme(Get(h)) = <<"Bearer">>
    /\ HeaderCredential(Get(h)) # <<>>

\* The outcome the claim assigns to a request: a function of the header, the
\* method, M and the configured keys.
ExpectedOutcome(h, m, opt, e) ==
    IF ~HasToken(h) \/ HeaderCredential(Get(h)) \notin WriterSet(e) \cup ReaderSet(e)
    THEN "401"
    ELSE IF Protected(opt, m) /\ HeaderCredential(Get(h)) \notin WriterSet(e)
    THEN "403"
    ELSE "handler"

InChain == ran # <<>> /\ ran[1] = "auth"
HandlerReached == InChain /\ Len(ran) = 3 /\ ran[3] = "handler"
ChainComplete == response # NoResponse \/ HandlerReached

\* C11: in the chain auth -> requireWriter({methods: M}) -> handler the
\* handler is reached only if the method is in M and the token is in the
\* writer set, or the method is not in M and the token is in the writer or
\* reader set; the outcome (handler, 401 or 403) is a function of the header,
\* the method, M and the keys, exactly one outcome occurs per request, and a
\* request that is not complete can always take its next step.  requireWriter
\* on its own passes an unlisted method whatever the role.
C11_ChainOutcome ==
    /\ InChain =>
          LET expected == ExpectedOutcome(authHeader, reqMethod, optMethods, env)
              token    == HeaderCredential(Get(authHeader))
          IN  /\ response = Unauthorized <=> expected = "401"
              /\ Len(ran) >= 2 => (response = Forbidden <=> expected = "403")
              /\ response \in {NoResponse, Unauthorized, Forbidden}
              /\ HandlerReached =>
                    /\ response = NoResponse
                    /\ expected = "handler"
                    /\ \/ /\ Protected(optMethods, reqMethod)
                          /\ token \in WriterSet(env)
                       \/ /\ ~Protected(optMethods, reqMethod)
                          /\ token \in WriterSet(env) \cup ReaderSet(env)
              /\ ~ChainComplete => ENABLED (ChainRequireWriter \/ Handler)
    /\ (WriterRan /\ ~Protected(optMethods, reqMethod)) => Passed("requireWriter")

C11_Witness ==
    /\ HandlerReached
    /\ authRole = "reader"
    /\ HeaderCredential(Get(authHeader)) \notin WriterSet(env)
    /\ optMethods = Some(<< <<"P">> >>)
    /\ reqMethod = <<"g">>
    /\ response = NoResponse

=============================================================================
